---- MODULE Spec2Model ----
(***************************************************************************)
(* A model of the history-reconstruction core of robota_core:              *)
(*   commit.py                  get_tags_at_date, get_merge_commit,        *)
(*                              CommitCache                                *)
(*   commit_visualisation.py    identify_merge_commit_parents,             *)
(*                              get_branch_commits, add_unmerged_branches, *)
(*                              catch_empty_graph, process_commits         *)
(*   logic.py                   get_first_feature_commit,                  *)
(*                              find_feature_parent, find_commit_in_list,  *)
(*                              fixup_first_feature_commit                 *)
(*   repository.py              Repository.get_tag, get_commits,           *)
(*                              get_commit_by_id                           *)
(* The methods of Repository keep state between calls (the tags and the    *)
(* commit caches); every other function is a pure function of its          *)
(* arguments.  Each one gets a specification whose initial states draw the *)
(* arguments from bounded sets and whose actions apply the function the    *)
(* way the code computes it.                                               *)
(***************************************************************************)
EXTENDS Integers, Sequences, FiniteSets, TLC

VARIABLES
    pc,                \* position of the call being modelled
    date,              \* get_tags_at_date: the query date
    tags,              \* get_tags_at_date: the current tags
    events,            \* get_tags_at_date: the event list
    tags_at_date,      \* get_tags_at_date: the returned list
    all_commits,       \* process_commits: the commit ids
    commit_parents,    \* process_commits: the parent ids of each commit, in step
    refs,              \* process_commits: the targets of the refs, in dict order
    merge_commit_parents,  \* process_commits: result of identify_merge_commit_parents
    nodes,             \* process_commits: the branch paths built so far
    error,             \* the exception that ended the call, or None
    walk,              \* a single first-parent walk, one loop iteration per step
    base_commits,      \* get_first_feature_commit: commits of the base branch
    feature_commits,   \* get_first_feature_commit: commits of the feature branch
    first_feature_commit,  \* get_first_feature_commit: the returned commit
    feature_tip,       \* get_merge_commit: the commit at the tip of the feature branch
    master_commits,    \* get_merge_commit: commits of the master branch
    merge_commit,      \* get_merge_commit: the returned commit
    self_tags,         \* Repository._tags: the tags fetched so far
    server_tags,       \* Repository: the tags _fetch_tags returns
    server_events,     \* Repository: the events get_events returns
    name,              \* Repository.get_tag: the name asked for
    deadline,          \* Repository.get_tag: the deadline, or NoDeadline
    tags_to_search,    \* Repository.get_tag: the list that is searched
    tag,               \* Repository.get_tag: the returned tag
    feature_branch_commits,         \* fixup_first_feature_commit: the feature path
    initial_guess_of_first_commit,  \* fixup_first_feature_commit: the guess
    merge_commits,     \* fixup_first_feature_commit: the known merge commits
    fixed_commit,      \* fixup_first_feature_commit: the returned commit
    stored_commits,    \* Repository._stored_commits: the CommitCache list
    fetches,           \* Repository: calls of _fetch_commits and _fetch_commit_by_id
    calls              \* Repository: the get_commits and get_commit_by_id calls
                       \* made so far, each with what it returned or raised

vars == <<pc, date, tags, events, tags_at_date, all_commits, commit_parents, refs,
          merge_commit_parents, nodes, error, walk,
          base_commits, feature_commits, first_feature_commit,
          feature_tip, master_commits, merge_commit,
          self_tags, server_tags, server_events, name, deadline, tags_to_search, tag,
          feature_branch_commits, initial_guess_of_first_commit, merge_commits,
          fixed_commit, stored_commits, fetches, calls>>

featureVars == <<base_commits, feature_commits, first_feature_commit>>

tagVars == <<date, tags, events, tags_at_date>>
graphVars == <<all_commits, commit_parents, refs, merge_commit_parents, nodes>>
mergeVars == <<feature_tip, master_commits, merge_commit>>
repoVars == <<self_tags, server_tags, server_events, name, deadline, tags_to_search, tag>>
fixupVars == <<feature_branch_commits, initial_guess_of_first_commit, merge_commits,
               fixed_commit>>
cacheVars == <<stored_commits, fetches, calls>>

\* A Python value that is absent (None).
None == "None"

(***************************************************************************)
(* Sequence helpers (Python list operations).                              *)
(***************************************************************************)
\* Mutant of Reverse: the list is appended newest first, as the walk built it.
ReverseOmitted(s) == s

\* list(reversed(s))
Reverse(s) == [i \in 1..Len(s) |-> s[Len(s) + 1 - i]]

\* x in s
InSeq(x, s) == \E i \in 1..Len(s) : s[i] = x

\* s.index(x), 1-based; only used where x is in s
IndexOf(x, s) == CHOOSE i \in 1..Len(s) : s[i] = x /\ \A j \in 1..(i - 1) : s[j] # x

\* del s[i]
DelAt(s, i) == [j \in 1..(Len(s) - 1) |-> IF j < i THEN s[j] ELSE s[j + 1]]

\* All sequences over S of length at most n.
SeqsUpTo(S, n) == UNION {[1..k -> S] : k \in 0..n}

\* No walk in progress.
NoWalk == [kind |-> "none"]

\* Commit(commit, "dict"): identity and equality are by id.
Commit(id, parent_ids) == [id |-> id, parent_ids |-> parent_ids]

\* None where a Commit is expected; its id is the id of no commit.
NoCommit == [id |-> -2, parent_ids |-> <<>>]

\* The variables of get_first_feature_commit while another function is modelled.
FeatureIdle ==
    /\ base_commits = <<>>
    /\ feature_commits = <<>>
    /\ first_feature_commit = NoCommit

\* The variables of get_merge_commit while another function is modelled.
MergeIdle ==
    /\ feature_tip = NoCommit
    /\ master_commits = <<>>
    /\ merge_commit = NoCommit

\* The variables of fixup_first_feature_commit while another function is modelled.
FixupIdle ==
    /\ feature_branch_commits = <<>>
    /\ initial_guess_of_first_commit = NoCommit
    /\ merge_commits = <<>>
    /\ fixed_commit = NoCommit

\* The commit cache of a Repository while another function is modelled.
CacheIdle ==
    /\ stored_commits = <<>>
    /\ fetches = 0
    /\ calls = <<>>

\* The variables of process_commits while another function is modelled.
GraphIdle ==
    /\ all_commits = <<>>
    /\ commit_parents = <<>>
    /\ refs = <<>>
    /\ merge_commit_parents = <<>>
    /\ nodes = <<>>

(***************************************************************************)
(* commit.py: Tag, Event, get_tags_at_date                                 *)
(***************************************************************************)
MaxTags == 2
MaxEvents == 2

\* The query date of the tests is one instant; event dates lie at it or after it.
Deadline == 1
Dates == {Deadline, Deadline + 1}

\* Tag(tag_data, "dict"): a name and the id of the commit it points to.
Tag(tag_name, tag_commit) == [name |-> tag_name, commit_id |-> tag_commit]

TagUniverse ==
    {Tag("feature", 333), Tag("feature", 444), Tag("develop", 333)}

EventTypes == {"deleted", "pushed to", "pushed new"}
RefTypes == {"tag", "branch"}

\* Event._event_from_dict
Event(d, type, ref_type, ref_name, commit_id) ==
    [date |-> d, type |-> type, ref_type |-> ref_type,
     ref_name |-> ref_name, commit_id |-> commit_id]

EventUniverse ==
    {Event(d, ty, rt, t.name, t.commit_id) :
        d \in Dates, ty \in EventTypes, rt \in RefTypes, t \in TagUniverse}

\* Mutant of RemoveTagLoop: the first matching entry is deleted and the loop
\* ends there.
RECURSIVE RemoveTagLoopFirstOnly(_, _, _, _)
RemoveTagLoopFirstOnly(ts, pointer, tag_name, tag_commit) ==
    IF pointer <= Len(ts)
    THEN IF ts[pointer].commit_id = tag_commit /\ ts[pointer].name = tag_name
         THEN DelAt(ts, pointer)
         ELSE RemoveTagLoopFirstOnly(ts, pointer + 1, tag_name, tag_commit)
    ELSE ts

\* Mutant of RemoveTagLoop: the pointer advances after a deletion too, so the
\* entry that moved into the freed place is skipped.
RECURSIVE RemoveTagLoopSkipAfterDelete(_, _, _, _)
RemoveTagLoopSkipAfterDelete(ts, pointer, tag_name, tag_commit) ==
    IF pointer <= Len(ts)
    THEN IF ts[pointer].commit_id = tag_commit /\ ts[pointer].name = tag_name
         THEN RemoveTagLoopSkipAfterDelete(DelAt(ts, pointer), pointer + 1,
                                           tag_name, tag_commit)
         ELSE RemoveTagLoopSkipAfterDelete(ts, pointer + 1, tag_name, tag_commit)
    ELSE ts

\* The inner loop of get_tags_at_date: the pointer runs over the whole working
\* copy and deletes each entry that matches, without advancing after a deletion.
RECURSIVE RemoveTagLoop(_, _, _, _)
RemoveTagLoop(ts, pointer, tag_name, tag_commit) ==
    IF pointer <= Len(ts)
    THEN IF ts[pointer].commit_id = tag_commit /\ ts[pointer].name = tag_name
         THEN RemoveTagLoop(DelAt(ts, pointer), pointer, tag_name, tag_commit)
         ELSE RemoveTagLoop(ts, pointer + 1, tag_name, tag_commit)
    ELSE ts

\* Mutant of ApplyEvent: a deleted tag is put in front of the working copy.
ApplyEventPrepend(ts, event, d) ==
    IF event.date > d
    THEN IF event.type = "deleted"
         THEN IF event.ref_type = "tag"
              THEN <<[name |-> event.ref_name, commit_id |-> event.commit_id]>> \o ts
              ELSE ts
         ELSE IF event.type = "pushed to" \/ event.type = "pushed new"
              THEN IF event.ref_type = "tag"
                   THEN RemoveTagLoop(ts, 1, event.ref_name, event.commit_id)
                   ELSE ts
              ELSE ts
    ELSE ts

\* Mutant of ApplyEvent: an event dated at the query date counts as later.
ApplyEventAtOrAfter(ts, event, d) ==
    IF event.date >= d
    THEN IF event.type = "deleted"
         THEN IF event.ref_type = "tag"
              THEN Append(ts, Tag(event.ref_name, event.commit_id))
              ELSE ts
         ELSE IF event.type = "pushed to" \/ event.type = "pushed new"
              THEN IF event.ref_type = "tag"
                   THEN RemoveTagLoop(ts, 1, event.ref_name, event.commit_id)
                   ELSE ts
              ELSE ts
    ELSE ts

\* The body of "for event in events" in get_tags_at_date.
ApplyEvent(ts, event, d) ==
    IF event.date > d
    THEN IF event.type = "deleted"
         THEN IF event.ref_type = "tag"
              THEN Append(ts, Tag(event.ref_name, event.commit_id))
              ELSE ts
         ELSE IF event.type = "pushed to" \/ event.type = "pushed new"
              THEN IF event.ref_type = "tag"
                   THEN RemoveTagLoop(ts, 1, event.ref_name, event.commit_id)
                   ELSE ts
              ELSE ts
    ELSE ts

\* Mutant of ApplyEvents: the event list is run through from its end.
RECURSIVE ApplyEventsFromTheEnd(_, _, _, _)
ApplyEventsFromTheEnd(ts, evs, i, d) ==
    IF i > Len(evs) THEN ts
    ELSE ApplyEventsFromTheEnd(ApplyEvent(ts, evs[Len(evs) + 1 - i], d), evs, i + 1, d)

RECURSIVE ApplyEvents(_, _, _, _)
ApplyEvents(ts, evs, i, d) ==
    IF i > Len(evs) THEN ts
    ELSE ApplyEvents(ApplyEvent(ts, evs[i], d), evs, i + 1, d)

\* get_tags_at_date(date, tags, events): the deep copy is the value itself.
get_tags_at_date(d, ts, evs) == ApplyEvents(ts, evs, 1, d)

\* The variables of get_tags_at_date while another function is modelled.
TagsIdle ==
    /\ date = Deadline
    /\ tags = <<>>
    /\ events = <<>>
    /\ tags_at_date = <<>>

\* A call of get_tag without a deadline (deadline=None).
NoDeadline == 0

\* None where a Tag is expected; its name is the name of no tag.
NoTag == [name |-> None, commit_id |-> -2]

\* The variables of Repository.get_tag while another function is modelled.
RepoIdle ==
    /\ self_tags = <<>>
    /\ server_tags = <<>>
    /\ server_events = <<>>
    /\ name = None
    /\ deadline = NoDeadline
    /\ tags_to_search = <<>>
    /\ tag = NoTag

InitTags ==
    /\ pc = "call"
    /\ date = Deadline
    /\ tags \in SeqsUpTo(TagUniverse, MaxTags)
    /\ events \in SeqsUpTo(EventUniverse, MaxEvents)
    /\ tags_at_date = <<>>
    /\ GraphIdle
    /\ FeatureIdle
    /\ MergeIdle
    /\ RepoIdle
    /\ FixupIdle
    /\ CacheIdle
    /\ error = None
    /\ walk = NoWalk

GetTagsAtDate ==
    /\ pc = "call"
    /\ tags_at_date' = get_tags_at_date(date, tags, events)
    /\ pc' = "done"
    /\ UNCHANGED <<date, tags, events, error, walk>>
    /\ UNCHANGED <<graphVars, featureVars, mergeVars, repoVars, fixupVars, cacheVars>>

NextTags == GetTagsAtDate

SpecTags == InitTags /\ [][NextTags]_vars

(***************************************************************************)
(* get_tags_at_date on the lifecycle of one tag: the tag is pushed and     *)
(* deleted in turn after the query date, the events are listed newest      *)
(* first as the server lists them, and the current tags are what the last  *)
(* event left.  One event of another ref may stand among them.             *)
(***************************************************************************)
MaxLifecycle == 4

\* The events of the lifecycle of t, newest first: the i-th event in time is
\* dated Deadline + i, and is a deletion when the tag existed before it.
Lifecycle(t, existed, k) ==
    [j \in 1..k |->
        LET i == k + 1 - j
        IN  Event(Deadline + i,
                  IF existed = (i % 2 = 1) THEN "deleted" ELSE "pushed new",
                  "tag", t.name, t.commit_id)]

\* An event of another tag, or of a branch with the name of t, dated d.
OtherEvents(t, d) ==
    {Event(d, ty, "tag", u.name, u.commit_id) :
        ty \in {"deleted", "pushed new"}, u \in TagUniverse \ {t}}
    \cup {Event(d, "deleted", "branch", t.name, t.commit_id)}

\* s with x put in after its first p elements.
InsertAt(s, p, x) == SubSeq(s, 1, p) \o <<x>> \o SubSeq(s, p + 1, Len(s))

InitLifecycle ==
    /\ pc = "call"
    /\ date = Deadline
    /\ \E t \in TagUniverse, existed \in BOOLEAN, k \in 0..MaxLifecycle :
          /\ \E others \in SeqsUpTo(TagUniverse \ {t}, 1) :
                tags \in IF existed = (k % 2 = 0)
                         THEN {<<t>> \o others, others \o <<t>>}
                         ELSE {others}
          /\ \/ events = Lifecycle(t, existed, k)
             \/ \E p \in 0..k :
                   \E e \in OtherEvents(t, Deadline + (IF p < k THEN k - p ELSE 1)) :
                       events = InsertAt(Lifecycle(t, existed, k), p, e)
    /\ tags_at_date = <<>>
    /\ GraphIdle
    /\ FeatureIdle
    /\ MergeIdle
    /\ RepoIdle
    /\ FixupIdle
    /\ CacheIdle
    /\ error = None
    /\ walk = NoWalk

SpecLifecycle == InitLifecycle /\ [][NextTags]_vars

(***************************************************************************)
(* Claims about get_tags_at_date                                           *)
(***************************************************************************)
\* The indices of the tag events of evs that are dated after d, have a type in
\* types and name the tag t.
TagEventsFor(evs, d, t, types) ==
    {i \in 1..Len(evs) :
        /\ evs[i].date > d
        /\ evs[i].ref_type = "tag"
        /\ evs[i].type \in types
        /\ evs[i].ref_name = t.name
        /\ evs[i].commit_id = t.commit_id}

\* C1: a tag that is not in the current list and whose events after the query
\* date are one 'pushed new' and one 'deleted' is absent from the result,
\* whichever of the two events comes first in the event list.
C1_PushDeletePairAbsent ==
    pc = "done" =>
        \A t \in TagUniverse :
            ( /\ ~InSeq(t, tags)
              /\ Cardinality(TagEventsFor(events, date, t, {"pushed new"})) = 1
              /\ Cardinality(TagEventsFor(events, date, t, {"deleted"})) = 1
              /\ TagEventsFor(events, date, t, {"pushed to"}) = {} )
            => ~InSeq(t, tags_at_date)

Pushes == {"pushed to", "pushed new"}

\* The current tags that no tag push dated after the query date names, in
\* their original order.
KeptTags ==
    SelectSeq(tags, LAMBDA u : TagEventsFor(events, date, u, Pushes) = {})

\* The current tags come first in the result, in their original order,
\* without those pushed after the query date.
KeptTagsComeFirst ==
    /\ Len(tags_at_date) >= Len(KeptTags)
    /\ SubSeq(tags_at_date, 1, Len(KeptTags)) = KeptTags

\* C11: a tag with a 'deleted' tag event after the query date and no push
\* event for it after the query date is in the result, at a place after all
\* the current tags, and these keep their original relative order.
C11_DeletedTagAppended ==
    pc = "done" =>
        \A t \in TagUniverse :
            ( /\ TagEventsFor(events, date, t, {"deleted"}) # {}
              /\ TagEventsFor(events, date, t, Pushes) = {} )
            => /\ KeptTagsComeFirst
               /\ \E k \in (Len(KeptTags) + 1)..Len(tags_at_date) :
                     tags_at_date[k] = t

\* C11 witness: two current tags and one deleted tag of another name, which
\* is the third entry of the result.
C11_Witness ==
    /\ pc = "done"
    /\ Len(tags) = 2
    /\ tags[1] # tags[2]
    /\ tags_at_date = Append(tags, Tag("develop", 333))
    /\ TagEventsFor(events, date, Tag("develop", 333), {"deleted"}) # {}

\* C12: a current tag with a tag push after the query date and no deleted
\* event after it is nowhere in the result, and the other current tags stay,
\* in their original relative order.
C12_PushedTagRemoved ==
    pc = "done" =>
        \A t \in TagUniverse :
            ( /\ InSeq(t, tags)
              /\ TagEventsFor(events, date, t, Pushes) # {}
              /\ TagEventsFor(events, date, t, {"deleted"}) = {} )
            => /\ ~InSeq(t, tags_at_date)
               /\ KeptTagsComeFirst

\* C12 witness: the pushed tag stands twice in the current list and the
\* result holds neither entry.
C12_Witness ==
    /\ pc = "done"
    /\ tags = <<Tag("feature", 333), Tag("feature", 333)>>
    /\ TagEventsFor(events, date, Tag("feature", 333), Pushes) # {}
    /\ TagEventsFor(events, date, Tag("feature", 333), {"deleted"}) = {}
    /\ tags_at_date = <<>>

\* How often the tag t stands in the list s.
Count(t, s) == Cardinality({i \in 1..Len(s) : s[i] = t})

\* The larger of two numbers.
Max(a, b) == IF a > b THEN a ELSE b

\* The place in evs of the last tag push for t dated after d; 0 without one.
LastPush(evs, d, t) ==
    LET P == TagEventsFor(evs, d, t, Pushes)
    IN  IF P = {} THEN 0 ELSE CHOOSE i \in P : \A j \in P : j <= i

\* C21 as stated: each tag push after the query date takes one entry away, so
\* a tag without deleted events after the query date stays as often as it
\* stood in the current list, less the number of its pushes.
C21_PushRemovesOnlyFirst ==
    pc = "done" =>
        \A t \in TagUniverse :
            TagEventsFor(events, date, t, {"deleted"}) = {}
            => Count(t, tags_at_date) =
                  Max(0, Count(t, tags)
                         - Cardinality(TagEventsFor(events, date, t, Pushes)))

\* C21: each tag push event dated after the query date removes every entry of
\* the working copy that matches its (name, commit_id): after the last push
\* for a tag the result holds the tag once per 'deleted' event that follows
\* that push in the event list and no other entry of it; a tag without a
\* push keeps its current entries and gets one more per 'deleted' event.
C21_PushRemovesEveryMatch ==
    pc = "done" =>
        \A t \in TagUniverse :
            LET last == LastPush(events, date, t)
                later == {i \in TagEventsFor(events, date, t, {"deleted"}) : i > last}
            IN  Count(t, tags_at_date) =
                   (IF last = 0 THEN Count(t, tags) ELSE 0) + Cardinality(later)

\* C21 witness: the tag stands twice in the current list, one push for it is
\* dated after the query date, and the result holds no entry of it.
C21_Witness ==
    /\ pc = "done"
    /\ Count(Tag("feature", 444), tags) = 2
    /\ Cardinality(TagEventsFor(events, date, Tag("feature", 444), Pushes)) = 1
    /\ TagEventsFor(events, date, Tag("feature", 444), {"deleted"}) = {}
    /\ Count(Tag("feature", 444), tags_at_date) = 0

\* The events of evs that are dated strictly after d and have ref_type tag.
LaterTagEvents(evs, d) ==
    SelectSeq(evs, LAMBDA e : e.date > d /\ e.ref_type = "tag")

\* C25: the events that are not dated strictly after the query date and the
\* events whose ref_type is not tag have no effect: the result equals the
\* result computed without them, and the current tag list when none is left.
C25_OtherEventsIgnored ==
    pc = "done" =>
        /\ tags_at_date = get_tags_at_date(date, tags, LaterTagEvents(events, date))
        /\ LaterTagEvents(events, date) = <<>> => tags_at_date = tags

\* C25 witness: a tag event dated at the query date and a branch event dated
\* after it, both for a current tag, and the result is the current tag list.
C25_Witness ==
    /\ pc = "done"
    /\ tags # <<>>
    /\ Len(events) = 2
    /\ events[1].date = date /\ events[1].ref_type = "tag"
    /\ events[1].type = "pushed new"
    /\ Tag(events[1].ref_name, events[1].commit_id) = tags[1]
    /\ events[2].date > date /\ events[2].ref_type = "branch"
    /\ events[2].type = "deleted"
    /\ tags_at_date = tags

\* The places in the event list of the tag events for t after the query date.
LifeOf(t) == TagEventsFor(events, date, t, EventTypes)

\* The events for t after the query date are 'pushed new' and 'deleted' in
\* turn, the event list is newest first, and the current list holds t once
\* when the newest of them is a push and not at all when it is a deletion.
IsLifecycle(t) ==
    /\ \A i \in LifeOf(t) : events[i].type \in {"pushed new", "deleted"}
    /\ \A i, j \in LifeOf(t) :
          (i < j /\ \A m \in LifeOf(t) : ~(i < m /\ m < j))
              => events[i].type # events[j].type
    /\ \A i, j \in 1..Len(events) : i < j => events[i].date >= events[j].date
    /\ Count(t, tags) <= 1
    /\ LifeOf(t) # {} =>
          LET newest == CHOOSE i \in LifeOf(t) : \A j \in LifeOf(t) : i <= j
          IN  InSeq(t, tags) <=> events[newest].type = "pushed new"

\* The tag existed at the query date: its oldest event after that date
\* deleted it, or it has no event since and is a current tag.
ExistedAtDate(t) ==
    IF LifeOf(t) = {} THEN InSeq(t, tags)
    ELSE LET oldest == CHOOSE i \in LifeOf(t) : \A j \in LifeOf(t) : j <= i
         IN  events[oldest].type = "deleted"

\* C28: for a tag with such a lifecycle after the query date, the result
\* holds the tag exactly when the tag existed at the query date.
C28_LifecycleReplayedBackwards ==
    pc = "done" =>
        \A t \in TagUniverse :
            IsLifecycle(t) => (InSeq(t, tags_at_date) <=> ExistedAtDate(t))

\* C28 witness: a tag that existed at the query date was deleted, pushed and
\* deleted again; it is no current tag, and the result holds it.
C28_Witness ==
    /\ pc = "done"
    /\ \E t \in TagUniverse :
          /\ IsLifecycle(t)
          /\ Cardinality(LifeOf(t)) = 3
          /\ ExistedAtDate(t)
          /\ ~InSeq(t, tags)
          /\ InSeq(t, tags_at_date)

(***************************************************************************)
(* commit_visualisation.py: the snapshot                                   *)
(*                                                                         *)
(* Commit ids are 1..n, numbered by age: every parent of a commit is older *)
(* than the commit, so the snapshot is acyclic.  X is an id of no commit   *)
(* of the snapshot (the "x" of the tests): a parent outside the window.    *)
(***************************************************************************)
MaxCommits == 3
X == 0

\* The fake parent "None" that main() invents for a commit without parents.
FakeParent == -1

\* The parent lists a commit with id c can have: none (a root), one parent,
\* or two different parents (a merge commit), each older than c or outside.
ParentLists(c) ==
    LET older == X..(c - 1)
    IN  {<<>>} \cup {<<p>> : p \in older}
               \cup {pq \in older \X older : pq[1] # pq[2]}

\* The parent lists of the commits 1..n, by commit id.
RECURSIVE Histories(_)
Histories(n) ==
    IF n = 0 THEN {<<>>}
    ELSE {Append(h, pl) : h \in Histories(n - 1), pl \in ParentLists(n)}

\* The two orders the commit list is given in: most recent first (the docstring
\* of process_commits, git log) and oldest first (the order of the tests).
NewestFirst(n) == [i \in 1..n |-> n + 1 - i]
OldestFirst(n) == [i \in 1..n |-> i]

\* The names of the refs, in the order of the dict.
RefNames == <<"master", "feature">>

\* refs as the targets of the first k names; a target may be any id.
RefTargets(n) == UNION {[1..k -> X..n] : k \in 0..Len(RefNames)}

\* A snapshot: all_commits, commit_parents in step with it, and refs.
InitSnapshot ==
    \E n \in 0..MaxCommits :
        /\ all_commits \in {NewestFirst(n), OldestFirst(n)}
        /\ \E h \in Histories(n) :
              commit_parents = [i \in 1..n |-> h[all_commits[i]]]
        /\ refs \in RefTargets(n)

(***************************************************************************)
(* commit_visualisation.py: identify_merge_commit_parents                  *)
(***************************************************************************)
RECURSIVE IdentifyLoop(_, _, _)
IdentifyLoop(cp, i, acc) ==
    IF i > Len(cp) THEN acc
    ELSE IdentifyLoop(cp, i + 1, IF Len(cp[i]) > 1 THEN Append(acc, cp[i]) ELSE acc)

identify_merge_commit_parents(cp) == IdentifyLoop(cp, 1, <<>>)

(***************************************************************************)
(* commit_visualisation.py: get_branch_commits                             *)
(*                                                                         *)
(* A walk is a record: parent_id and commit_list as in the code, running   *)
(* for the truth of the loop variable "parents", raised for an IndexError, *)
(* and steps, the count of ids the loop has appended.                      *)
(***************************************************************************)
BranchWalkStart(child_id, parent_id) ==
    [kind |-> "branch", parent_id |-> parent_id,
     commit_list |-> <<child_id, parent_id>>,
     running |-> TRUE, raised |-> FALSE, steps |-> 0]

\* Mutant of BranchWalkStep: the loop takes the id of the commit it looked up
\* (all_commits[parent_index]) for the next parent_id, so it never moves on.
BranchWalkStepStuck(ac, cp, w) ==
    IF InSeq(w.parent_id, ac)
    THEN LET parent_index == IndexOf(w.parent_id, ac)
             parents == cp[parent_index]
         IN  IF parents = <<>>
             THEN [w EXCEPT !.running = FALSE, !.raised = TRUE]
             ELSE [w EXCEPT !.parent_id = ac[parent_index],
                            !.commit_list = Append(w.commit_list, ac[parent_index]),
                            !.steps = w.steps + 1]
    ELSE [w EXCEPT !.running = FALSE]

\* One iteration of "while parents" in get_branch_commits.
BranchWalkStep(ac, cp, w) ==
    IF InSeq(w.parent_id, ac)
    THEN LET parent_index == IndexOf(w.parent_id, ac)
             parents == cp[parent_index]
         IN  IF parents = <<>>
             THEN [w EXCEPT !.running = FALSE, !.raised = TRUE]   \* parents[0]
             ELSE [w EXCEPT !.parent_id = parents[1],
                            !.commit_list = Append(w.commit_list, parents[1]),
                            !.steps = w.steps + 1]
    ELSE [w EXCEPT !.running = FALSE]

RECURSIVE BranchWalk(_, _, _)
BranchWalk(ac, cp, w) ==
    IF w.running THEN BranchWalk(ac, cp, BranchWalkStep(ac, cp, w)) ELSE w

\* The two nested for loops: pair i of merge_commit_parents, parent j of the pair.
RECURSIVE BranchLoop(_, _, _, _, _, _)
BranchLoop(ac, cp, mcp, i, j, acc) ==
    IF i > Len(mcp) THEN [raised |-> FALSE, nodes |-> acc]
    ELSE IF j > Len(mcp[i]) THEN BranchLoop(ac, cp, mcp, i + 1, 1, acc)
    ELSE LET parent_pair == mcp[i]
             child_index == IndexOf(parent_pair, cp)
             child_id == ac[child_index]
             w == BranchWalk(ac, cp, BranchWalkStart(child_id, parent_pair[j]))
         IN  IF w.raised THEN [raised |-> TRUE, nodes |-> acc]
             ELSE BranchLoop(ac, cp, mcp, i, j + 1,
                             Append(acc, Reverse(w.commit_list)))

get_branch_commits(ac, cp, mcp) == BranchLoop(ac, cp, mcp, 1, 1, <<>>)

(***************************************************************************)
(* commit_visualisation.py: add_unmerged_branches                          *)
(***************************************************************************)
\* flat_parents, as the set of its elements
FlatParents(cp) == UNION {{cp[i][k] : k \in 1..Len(cp[i])} : i \in 1..Len(cp)}

\* The walk of a ref whose target is in all_commits; "parents" is the parent
\* list being followed, and the empty list stands for False too (both end the loop).
UnmergedWalkStart(ac, cp, ref_id) ==
    [kind |-> "unmerged", parents |-> cp[IndexOf(ref_id, ac)],
     branch |-> <<ref_id>>, steps |-> 0]

\* Mutant of UnmergedWalkStep: the loop follows the last parent (parents[-1])
\* where the code follows the first.
UnmergedWalkStepLastParent(ac, cp, w) ==
    LET parent_id == w.parents[Len(w.parents)]
    IN  [w EXCEPT !.branch = Append(w.branch, parent_id),
                  !.parents = IF InSeq(parent_id, ac)
                              THEN cp[IndexOf(parent_id, ac)]
                              ELSE <<>>,
                  !.steps = w.steps + 1]

\* One iteration of "while parents" in add_unmerged_branches.
UnmergedWalkStep(ac, cp, w) ==
    LET parent_id == w.parents[1]
    IN  [w EXCEPT !.branch = Append(w.branch, parent_id),
                  !.parents = IF InSeq(parent_id, ac)
                              THEN cp[IndexOf(parent_id, ac)]
                              ELSE <<>>,
                  !.steps = w.steps + 1]

RECURSIVE UnmergedWalk(_, _, _)
UnmergedWalk(ac, cp, w) ==
    IF w.parents # <<>> THEN UnmergedWalk(ac, cp, UnmergedWalkStep(ac, cp, w)) ELSE w

RECURSIVE UnmergedLoop(_, _, _, _, _)
UnmergedLoop(rs, ac, cp, i, acc) ==
    IF i > Len(rs) THEN acc
    ELSE IF rs[i] \notin FlatParents(cp) /\ InSeq(rs[i], ac)
         THEN UnmergedLoop(rs, ac, cp, i + 1,
                  Append(acc, Reverse(UnmergedWalk(ac, cp,
                                          UnmergedWalkStart(ac, cp, rs[i])).branch)))
         ELSE UnmergedLoop(rs, ac, cp, i + 1, acc)

add_unmerged_branches(rs, ac, cp, ns) == UnmergedLoop(rs, ac, cp, 1, ns)

(***************************************************************************)
(* commit_visualisation.py: catch_empty_graph                              *)
(***************************************************************************)
FallbackWalkStart(ac) ==
    [kind |-> "fallback", parent_id |-> ac[Len(ac)],
     commit_list |-> <<ac[Len(ac)]>>,
     running |-> TRUE, raised |-> FALSE, steps |-> 0]

\* One iteration of "while parents" in catch_empty_graph.
FallbackWalkStep(ac, cp, w) ==
    IF InSeq(w.parent_id, ac)
    THEN LET parent_index == IndexOf(w.parent_id, ac)
             parents == cp[parent_index]
         IN  IF parents = <<>>
             THEN [w EXCEPT !.running = FALSE, !.raised = TRUE]   \* parents[0]
             ELSE [w EXCEPT !.parent_id = parents[1],
                            !.commit_list = Append(w.commit_list, parents[1]),
                            !.steps = w.steps + 1]
    ELSE [w EXCEPT !.running = FALSE]

RECURSIVE FallbackWalk(_, _, _)
FallbackWalk(ac, cp, w) ==
    IF w.running THEN FallbackWalk(ac, cp, FallbackWalkStep(ac, cp, w)) ELSE w

catch_empty_graph(ns, ac, cp) ==
    IF ns = <<>>
    THEN IF ac = <<>>
         THEN [raised |-> TRUE, nodes |-> ns]                     \* all_commits[-1]
         ELSE LET w == FallbackWalk(ac, cp, FallbackWalkStart(ac))
              IN  IF w.raised THEN [raised |-> TRUE, nodes |-> ns]
                  ELSE [raised |-> FALSE, nodes |-> <<Reverse(w.commit_list)>>]
    ELSE [raised |-> FALSE, nodes |-> ns]

(***************************************************************************)
(* commit_visualisation.py: process_commits, one action per statement      *)
(***************************************************************************)
InitGraph ==
    /\ pc = "start"
    /\ InitSnapshot
    /\ merge_commit_parents = <<>>
    /\ nodes = <<>>
    /\ FixupIdle
    /\ CacheIdle
    /\ error = None
    /\ walk = NoWalk
    /\ TagsIdle
    /\ MergeIdle
    /\ RepoIdle
    /\ FeatureIdle

\* main(): "If any parent is empty then invent a fake parent", before it calls
\* process_commits.  The tests call process_commits directly, without this step.
InventFakeParents ==
    /\ pc = "start"
    /\ commit_parents' = [i \in 1..Len(commit_parents) |->
                             IF commit_parents[i] = <<>> THEN <<FakeParent>>
                             ELSE commit_parents[i]]
    /\ pc' = "identify"
    /\ UNCHANGED <<all_commits, refs, merge_commit_parents, nodes, error, walk>>
    /\ UNCHANGED <<tagVars, featureVars, mergeVars, repoVars, fixupVars, cacheVars>>

IdentifyMergeCommitParents ==
    /\ pc \in {"start", "identify"}
    /\ merge_commit_parents' = identify_merge_commit_parents(commit_parents)
    /\ pc' = "branch"
    /\ UNCHANGED <<all_commits, commit_parents, refs, nodes, error, walk>>
    /\ UNCHANGED <<tagVars, featureVars, mergeVars, repoVars, fixupVars, cacheVars>>

GetBranchCommits ==
    /\ pc = "branch"
    /\ LET r == get_branch_commits(all_commits, commit_parents, merge_commit_parents)
       IN  IF r.raised
           THEN pc' = "raised" /\ error' = "IndexError" /\ nodes' = nodes
           ELSE pc' = "unmerged" /\ error' = error /\ nodes' = r.nodes
    /\ UNCHANGED <<all_commits, commit_parents, refs, merge_commit_parents, walk>>
    /\ UNCHANGED <<tagVars, featureVars, mergeVars, repoVars, fixupVars, cacheVars>>

AddUnmergedBranches ==
    /\ pc = "unmerged"
    /\ nodes' = add_unmerged_branches(refs, all_commits, commit_parents, nodes)
    /\ pc' = "fallback"
    /\ UNCHANGED <<all_commits, commit_parents, refs, merge_commit_parents, error, walk>>
    /\ UNCHANGED <<tagVars, featureVars, mergeVars, repoVars, fixupVars, cacheVars>>

CatchEmptyGraph ==
    /\ pc = "fallback"
    /\ LET r == catch_empty_graph(nodes, all_commits, commit_parents)
       IN  IF r.raised
           THEN pc' = "raised" /\ error' = "IndexError" /\ nodes' = nodes
           ELSE pc' = "done" /\ error' = error /\ nodes' = r.nodes
    /\ UNCHANGED <<all_commits, commit_parents, refs, merge_commit_parents, walk>>
    /\ UNCHANGED <<tagVars, featureVars, mergeVars, repoVars, fixupVars, cacheVars>>

\* process_commits: the four statements in a row; raised when a step raises.
process_commits(ac, cp, rs) ==
    LET mcp == identify_merge_commit_parents(cp)
        branches == get_branch_commits(ac, cp, mcp)
    IN  IF branches.raised THEN [raised |-> TRUE, nodes |-> <<>>]
        ELSE catch_empty_graph(add_unmerged_branches(rs, ac, cp, branches.nodes),
                               ac, cp)

NextGraph ==
    \/ InventFakeParents
    \/ IdentifyMergeCommitParents
    \/ GetBranchCommits
    \/ AddUnmergedBranches
    \/ CatchEmptyGraph

SpecGraph == InitGraph /\ [][NextGraph]_vars

(***************************************************************************)
(* Claims about process_commits                                            *)
(***************************************************************************)
\* The first parent of the commit with this id, or no value for an id outside
\* the snapshot and for a commit without parents.
HasFirstParent(id) ==
    InSeq(id, all_commits) /\ commit_parents[IndexOf(id, all_commits)] # <<>>

FirstParentOf(id) == commit_parents[IndexOf(id, all_commits)][1]

\* path is a first-parent chain that ends with tip and goes back as far as
\* the snapshot allows: each element but the oldest is a commit of the
\* snapshot whose first parent is the element before it, and the oldest is
\* an id outside the snapshot or a commit without parents.
IsFirstParentPath(path, tip) ==
    /\ Len(path) >= 1
    /\ path[Len(path)] = tip
    /\ \A j \in 2..Len(path) :
          HasFirstParent(path[j]) /\ FirstParentOf(path[j]) = path[j - 1]
    /\ ~HasFirstParent(path[1])

C3_NeverRaises == pc # "raised"

\* C6: when get_branch_commits has returned, every commit with two parents
\* m and f has two paths of its own that end with its id, one through m and
\* one through f, each a first-parent chain from there.
C6_TwoPathsPerMergeCommit ==
    pc = "unmerged" =>
        \A i \in 1..Len(all_commits) :
            Len(commit_parents[i]) = 2 =>
                \E k1, k2 \in 1..Len(nodes) :
                    /\ k1 # k2
                    /\ \A k \in {k1, k2} :
                          /\ Len(nodes[k]) >= 2
                          /\ nodes[k][Len(nodes[k])] = all_commits[i]
                    /\ nodes[k1][Len(nodes[k1]) - 1] = commit_parents[i][1]
                    /\ nodes[k2][Len(nodes[k2]) - 1] = commit_parents[i][2]
                    /\ \A k \in {k1, k2} :
                          LET path == nodes[k]
                          IN  IsFirstParentPath(SubSeq(path, 1, Len(path) - 1),
                                                path[Len(path) - 1])

\* id occurs in the parent list of some commit of the snapshot.
IsSomeParent(id) ==
    \E i \in 1..Len(commit_parents) : InSeq(id, commit_parents[i])

\* The refs add_unmerged_branches is said to give a path: the target is in
\* no parent list.
RefsInNoParentList == SelectSeq(refs, LAMBDA r : ~IsSomeParent(r))

\* The refs it does give a path: the target is also a commit of the snapshot.
RefsOfUnmergedTips ==
    SelectSeq(refs, LAMBDA r : ~IsSomeParent(r) /\ InSeq(r, all_commits))

\* The step of add_unmerged_branches appends to nodes one first-parent path
\* for each ref of tips, in order, and nothing else.
AddsOnePathPerRef(tips) ==
    pc = "unmerged" =>
        /\ Len(nodes') = Len(nodes) + Len(tips)
        /\ SubSeq(nodes', 1, Len(nodes)) = nodes
        /\ \A k \in 1..Len(tips) :
              IsFirstParentPath(nodes'[Len(nodes) + k], tips[k])

\* C7 (as stated): one path for every ref whose target is in no parent list.
C7_PathPerRefInNoParentList == [][AddsOnePathPerRef(RefsInNoParentList)]_vars

\* C7 (amended): one path for every ref whose target is a commit of the
\* snapshot and is in no parent list, none for any other ref; the path ends
\* with the ref's commit id and follows first parents as far as the snapshot goes.
C7_PathPerUnmergedTip == [][AddsOnePathPerRef(RefsOfUnmergedTips)]_vars

\* C7 witness: add_unmerged_branches has added a path of two or more ids for
\* one ref and none for another ref.
C7_Witness ==
    /\ pc = "fallback"
    /\ Len(refs) = 2
    /\ Len(RefsOfUnmergedTips) = 1
    /\ Len(nodes) >= 1
    /\ Len(nodes[Len(nodes)]) >= 2
    /\ nodes[Len(nodes)][Len(nodes[Len(nodes)])] = RefsOfUnmergedTips[1]

\* The positions of the merge commits (two parents) in the commit list.
MergeCommits == {i \in 1..Len(commit_parents) : Len(commit_parents[i]) > 1}

\* C8: with a non-empty commit list process_commits returns, with at least
\* one path; with no merge commit and no ref that yields a path it returns
\* exactly one path, and the fallback path is added in that case only.
C8_NeverEmpty ==
    (pc \in {"done", "raised"} /\ all_commits # <<>>) =>
        /\ pc = "done"
        /\ Len(nodes) >= 1
        /\ Len(nodes) = IF MergeCommits = {} /\ RefsOfUnmergedTips = <<>>
                        THEN 1
                        ELSE 2 * Cardinality(MergeCommits) + Len(RefsOfUnmergedTips)

\* Linear history: each commit has one parent, the next older commit, and the
\* oldest commit has one parent outside the snapshot.
LinearHistory ==
    \A i \in 1..Len(all_commits) :
        commit_parents[i] = <<IF all_commits[i] = 1 THEN X ELSE all_commits[i] - 1>>

\* C9: for a linear snapshot given newest first, with no refs, the result is
\* the one path of all commit ids, oldest first.
C9_FallbackListsAllCommits ==
    ( /\ pc = "done"
      /\ all_commits = NewestFirst(Len(all_commits))
      /\ LinearHistory
      /\ refs = <<>> )
    => /\ Len(nodes) = 1
       /\ SelectSeq(nodes[1], LAMBDA id : InSeq(id, all_commits)) = Reverse(all_commits)

\* The reorderings of the places 1..n.
Reorderings(n) ==
    {f \in [1..n -> 1..n] : \A i, j \in 1..n : f[i] = f[j] => i = j}

\* The paths of a result, as a set.
PathSet(ns) == {ns[i] : i \in 1..Len(ns)}

\* C26: process_commits returns the same set of branch paths for every
\* reordering of the commit list with the parent lists reordered in step.
C26_OrderDoesNotMatter ==
    pc = "done" =>
        \A f \in Reorderings(Len(all_commits)) :
            LET r == process_commits([i \in 1..Len(all_commits) |-> all_commits[f[i]]],
                                     [i \in 1..Len(all_commits) |-> commit_parents[f[i]]],
                                     refs)
            IN  ~r.raised /\ PathSet(r.nodes) = PathSet(nodes)

(***************************************************************************)
(* logic.py: find_commit_in_list, find_feature_parent,                     *)
(* get_first_feature_commit                                                *)
(***************************************************************************)
\* commit in commits (Commit.__eq__ compares ids)
CommitIn(commit, commits) == \E i \in 1..Len(commits) : commits[i].id = commit.id

RECURSIVE FindLoop(_, _, _)
FindLoop(commit_id, commits, i) ==
    IF i > Len(commits) THEN NoCommit
    ELSE IF commits[i].id = commit_id THEN commits[i]
    ELSE FindLoop(commit_id, commits, i + 1)

find_commit_in_list(commit_id, commits) == FindLoop(commit_id, commits, 1)

\* The walk of find_feature_parent over the base branch: base_commit as in
\* the code, result "running" until the function returns True or False, and
\* steps, the count of base commits the loop has moved on to.
FeatureWalkStart(feature_commit, bcs) ==
    [kind |-> "feature_parent", feature_commit |-> feature_commit,
     base_commit |-> bcs[1], result |-> "running", steps |-> 0]

\* Mutant of FeatureWalkStep: only the parents after the first (the
\* non-mainline parents) of the base commit are compared.
FeatureWalkStepNonMainline(bcs, w) ==
    LET fparents == w.feature_commit.parent_ids
        found == /\ fparents # <<>>
                 /\ \E k \in 2..Len(w.base_commit.parent_ids) :
                       w.base_commit.parent_ids[k] = fparents[1]
                 /\ w.base_commit.id # w.feature_commit.id
        next == IF w.base_commit.parent_ids = <<>>
                THEN NoCommit
                ELSE find_commit_in_list(w.base_commit.parent_ids[1], bcs)
    IN  IF found THEN [w EXCEPT !.result = "True"]
        ELSE IF next = NoCommit THEN [w EXCEPT !.result = "False"]
        ELSE [w EXCEPT !.base_commit = next, !.steps = w.steps + 1]

\* One iteration of "while True" in find_feature_parent.
FeatureWalkStep(bcs, w) ==
    LET fparents == w.feature_commit.parent_ids
        found == /\ fparents # <<>>                       \* else feature_parent is None
                 /\ InSeq(fparents[1], w.base_commit.parent_ids)
                 /\ w.base_commit.id # w.feature_commit.id
        next == IF w.base_commit.parent_ids = <<>>
                THEN NoCommit                             \* IndexError caught
                ELSE find_commit_in_list(w.base_commit.parent_ids[1], bcs)
    IN  IF found THEN [w EXCEPT !.result = "True"]
        ELSE IF next = NoCommit THEN [w EXCEPT !.result = "False"]
        ELSE [w EXCEPT !.base_commit = next, !.steps = w.steps + 1]

RECURSIVE FeatureWalk(_, _)
FeatureWalk(bcs, w) ==
    IF w.result = "running" THEN FeatureWalk(bcs, FeatureWalkStep(bcs, w)) ELSE w

find_feature_parent(feature_commit, bcs) ==
    FeatureWalk(bcs, FeatureWalkStart(feature_commit, bcs)).result = "True"

\* What a call of get_first_feature_commit ends with: a returned value (a
\* Commit or None) or a raised exception with its type and message.
Return(commit) ==
    [raised |-> FALSE, value |-> commit, error |-> None, message |-> ""]

Raise(type, message) ==
    [raised |-> TRUE, value |-> NoCommit, error |-> type, message |-> message]

OldestMustBeCommon == "The oldest commit in each list must be common to both branches."
NotConnected == "Feature branch not connected to master branch."

\* Mutant of UnmergedFeatureLoop: the unconnected branch is reported with an
\* error type of its own.
RECURSIVE UnmergedFeatureLoopOwnKind(_, _, _)
UnmergedFeatureLoopOwnKind(bcs, fcs, i) ==
    IF i > Len(fcs) THEN Raise("ValueError", NotConnected)
    ELSE IF fcs[i].parent_ids = <<>> THEN Raise("IndexError", "")
    ELSE IF CommitIn(Commit(fcs[i].parent_ids[1], <<>>), bcs) THEN Return(fcs[i])
    ELSE UnmergedFeatureLoopOwnKind(bcs, fcs, i + 1)

\* Mutant of UnmergedFeatureLoop: the branching point, the parent that is in
\* base, is returned in place of the feature commit.
RECURSIVE UnmergedFeatureLoopBranchingPoint(_, _, _)
UnmergedFeatureLoopBranchingPoint(bcs, fcs, i) ==
    IF i > Len(fcs) THEN Raise("AssertionError", NotConnected)
    ELSE IF fcs[i].parent_ids = <<>> THEN Raise("IndexError", "")
    ELSE IF CommitIn(Commit(fcs[i].parent_ids[1], <<>>), bcs)
         THEN Return(find_commit_in_list(fcs[i].parent_ids[1], bcs))
    ELSE UnmergedFeatureLoopBranchingPoint(bcs, fcs, i + 1)

\* "for commit in feature_commits" of the unmerged case
RECURSIVE UnmergedFeatureLoop(_, _, _)
UnmergedFeatureLoop(bcs, fcs, i) ==
    IF i > Len(fcs) THEN Raise("AssertionError", NotConnected)
    ELSE IF fcs[i].parent_ids = <<>> THEN Raise("IndexError", "")   \* parent_ids[0]
    ELSE IF CommitIn(Commit(fcs[i].parent_ids[1], <<>>), bcs) THEN Return(fcs[i])
    ELSE UnmergedFeatureLoop(bcs, fcs, i + 1)

\* "for feature_commit in feature_commits" of the merged case, then the
\* fast-forward result feature_commits[-2]
RECURSIVE MergedFeatureLoop(_, _, _)
MergedFeatureLoop(bcs, fcs, i) ==
    IF i > Len(fcs)
    THEN IF Len(fcs) < 2 THEN Raise("IndexError", "")               \* feature_commits[-2]
         ELSE Return(fcs[Len(fcs) - 1])
    ELSE IF find_feature_parent(fcs[i], bcs) THEN Return(fcs[i])
    ELSE MergedFeatureLoop(bcs, fcs, i + 1)

\* Mutant of get_first_feature_commit: the common-commit check compares the
\* newest commits of the two lists (index 0) where the code compares the oldest.
get_first_feature_commit_newest(bcs, fcs) ==
    IF fcs = <<>> THEN Return(NoCommit)
    ELSE IF bcs = <<>> THEN Raise("IndexError", "")
    ELSE IF fcs[1].id # bcs[1].id
         THEN Raise("AssertionError", OldestMustBeCommon)
    ELSE IF ~CommitIn(fcs[1], bcs) THEN UnmergedFeatureLoop(bcs, fcs, 1)
    ELSE MergedFeatureLoop(bcs, fcs, 1)

\* Mutant of get_first_feature_commit: without the early return for an empty
\* feature list.
get_first_feature_commit_no_early_return(bcs, fcs) ==
    IF fcs = <<>> \/ bcs = <<>> THEN Raise("IndexError", "")
    ELSE IF fcs[Len(fcs)].id # bcs[Len(bcs)].id
         THEN Raise("AssertionError", OldestMustBeCommon)
    ELSE IF ~CommitIn(fcs[1], bcs) THEN UnmergedFeatureLoop(bcs, fcs, 1)
    ELSE MergedFeatureLoop(bcs, fcs, 1)

get_first_feature_commit(bcs, fcs) ==
    IF fcs = <<>> THEN Return(NoCommit)
    ELSE IF bcs = <<>> THEN Raise("IndexError", "")                 \* base_commits[-1]
    ELSE IF fcs[Len(fcs)].id # bcs[Len(bcs)].id
         THEN Raise("AssertionError", OldestMustBeCommon)
    ELSE IF ~CommitIn(fcs[1], bcs) THEN UnmergedFeatureLoop(bcs, fcs, 1)
    ELSE MergedFeatureLoop(bcs, fcs, 1)

\* The commits of the snapshot with these ids, newest first.
RECURSIVE CommitsOf(_, _)
CommitsOf(ids, h) ==
    IF ids = {} THEN <<>>
    ELSE LET newest == CHOOSE c \in ids : \A d \in ids : d <= c
         IN  <<Commit(newest, h[newest])>> \o CommitsOf(ids \ {newest}, h)

InitFeature ==
    /\ pc = "call"
    /\ \E n \in 0..MaxCommits :
          /\ all_commits = NewestFirst(n)
          /\ \E h \in Histories(n) :
                /\ commit_parents = [i \in 1..n |-> h[all_commits[i]]]
                /\ base_commits \in {CommitsOf(ids, h) : ids \in SUBSET (1..n)}
                /\ feature_commits \in {CommitsOf(ids, h) : ids \in SUBSET (1..n)}
    /\ refs = <<>>
    /\ merge_commit_parents = <<>>
    /\ nodes = <<>>
    /\ first_feature_commit = NoCommit
    /\ FixupIdle
    /\ CacheIdle
    /\ error = None
    /\ walk = NoWalk
    /\ TagsIdle
    /\ MergeIdle
    /\ RepoIdle

GetFirstFeatureCommit ==
    /\ pc = "call"
    /\ LET r == get_first_feature_commit(base_commits, feature_commits)
       IN  /\ pc' = IF r.raised THEN "raised" ELSE "done"
           /\ error' = IF r.raised THEN <<r.error, r.message>> ELSE None
           /\ first_feature_commit' = r.value
    /\ UNCHANGED <<base_commits, feature_commits, walk>>
    /\ UNCHANGED <<tagVars, graphVars, mergeVars, repoVars, fixupVars, cacheVars>>

NextFeature == GetFirstFeatureCommit

SpecFeature == InitFeature /\ [][NextFeature]_vars

(***************************************************************************)
(* logic.py: fixup_first_feature_commit                                    *)
(*                                                                         *)
(* The function reads ids only, so its lists are cut from one linear       *)
(* history of MaxCommits commits; merge_commits is whatever list of        *)
(* commits the caller holds to be merge commits.                           *)
(***************************************************************************)
\* Mutant of FixupLoop: the merge commit that was found is returned.
RECURSIVE FixupLoopMergeCommitItself(_, _, _, _, _)
FixupLoopMergeCommitItself(fbc, guess, mcs, i, next_commit) ==
    IF i > Len(fbc) THEN Return(guess)
    ELSE IF CommitIn(fbc[i], mcs) /\ i # 1 THEN Return(fbc[i])
    ELSE FixupLoopMergeCommitItself(fbc, guess, mcs, i + 1, fbc[i])

\* Mutant of FixupLoop: a scan that finds nothing returns the commit it
\* looked at last.
RECURSIVE FixupLoopLastCommit(_, _, _, _, _)
FixupLoopLastCommit(fbc, guess, mcs, i, next_commit) ==
    IF i > Len(fbc) THEN Return(next_commit)
    ELSE IF CommitIn(fbc[i], mcs) /\ i # 1
         THEN IF next_commit # NoCommit THEN Return(next_commit) ELSE Return(fbc[i])
    ELSE FixupLoopLastCommit(fbc, guess, mcs, i + 1, fbc[i])

\* "for commit in feature_branch_commits ... else": branch_tip is the object
\* at the head of the list, so "commit is not branch_tip" is "not the head".
RECURSIVE FixupLoop(_, _, _, _, _)
FixupLoop(fbc, guess, mcs, i, next_commit) ==
    IF i > Len(fbc) THEN Return(guess)
    ELSE IF CommitIn(fbc[i], mcs) /\ i # 1
         THEN IF next_commit # NoCommit THEN Return(next_commit) ELSE Return(fbc[i])
    ELSE FixupLoop(fbc, guess, mcs, i + 1, fbc[i])

fixup_first_feature_commit(fbc, guess, mcs) ==
    IF fbc = <<>> THEN Raise("IndexError", "")          \* feature_branch_commits[0]
    ELSE FixupLoop(fbc, guess, mcs, 1, NoCommit)

\* The commits with these ids of the linear history 1, 2, ..., newest first.
LinearCommits(ids) ==
    CommitsOf(ids, [c \in 1..MaxCommits |-> <<IF c = 1 THEN X ELSE c - 1>>])

InitFixup ==
    /\ pc = "fixup:call"
    /\ feature_branch_commits \in {LinearCommits(ids) : ids \in SUBSET (1..MaxCommits)}
    /\ initial_guess_of_first_commit \in
          {NoCommit} \cup {LinearCommits({c})[1] : c \in 1..MaxCommits}
    /\ merge_commits \in {LinearCommits(ids) : ids \in SUBSET (1..MaxCommits)}
    /\ fixed_commit = NoCommit
    /\ GraphIdle
    /\ FeatureIdle
    /\ TagsIdle
    /\ MergeIdle
    /\ RepoIdle
    /\ CacheIdle
    /\ error = None
    /\ walk = NoWalk

FixupFirstFeatureCommit ==
    /\ pc = "fixup:call"
    /\ LET r == fixup_first_feature_commit(feature_branch_commits,
                                           initial_guess_of_first_commit,
                                           merge_commits)
       IN  /\ pc' = IF r.raised THEN "fixup:raised" ELSE "fixup:done"
           /\ error' = IF r.raised THEN <<r.error, r.message>> ELSE None
           /\ fixed_commit' = r.value
    /\ UNCHANGED <<feature_branch_commits, initial_guess_of_first_commit,
                   merge_commits, walk>>
    /\ UNCHANGED <<tagVars, graphVars, featureVars, mergeVars, repoVars, cacheVars>>

NextFixup == FixupFirstFeatureCommit

SpecFixup == InitFixup /\ [][NextFixup]_vars

(***************************************************************************)
(* Claims about fixup_first_feature_commit                                 *)
(***************************************************************************)
\* The places after the head of feature_branch_commits that hold a commit
\* of merge_commits.
MergePlaces ==
    {i \in 2..Len(feature_branch_commits) :
        CommitIn(feature_branch_commits[i], merge_commits)}

\* The places of the initial guess in feature_branch_commits.
GuessPlaces ==
    {i \in 1..Len(feature_branch_commits) :
        feature_branch_commits[i].id = initial_guess_of_first_commit.id}

\* C23 as stated: when no merge commit other than the tip stands between
\* the tip and the initial guess (the guess included), the call returns the
\* initial guess.
C23_GuessKeptWhenNoMergeBeforeIt ==
    ( /\ pc # "fixup:call"
      /\ GuessPlaces # {}
      /\ \A g \in GuessPlaces : \A i \in MergePlaces : i > g )
    => /\ pc = "fixup:done"
       /\ fixed_commit = initial_guess_of_first_commit

\* C23: when no commit of a non-empty feature_branch_commits other than its
\* head is a merge commit, the call returns the initial guess unchanged,
\* whether the guess is in the list or not.
C23_GuessKeptWhenNoMergeAnywhere ==
    ( /\ pc # "fixup:call"
      /\ feature_branch_commits # <<>>
      /\ MergePlaces = {} )
    => /\ pc = "fixup:done"
       /\ fixed_commit = initial_guess_of_first_commit

\* C23 witness: the tip is a merge commit, no other commit of the three is,
\* and the call returned the guess, the middle commit.
C23_Witness ==
    /\ pc = "fixup:done"
    /\ Len(feature_branch_commits) = 3
    /\ CommitIn(feature_branch_commits[1], merge_commits)
    /\ MergePlaces = {}
    /\ initial_guess_of_first_commit = feature_branch_commits[2]
    /\ fixed_commit = initial_guess_of_first_commit

\* C24: when the list holds a merge commit after its head, the call returns
\* the element just before the newest such merge commit.
C24_CommitAfterNewestMergeReturned ==
    (pc # "fixup:call" /\ MergePlaces # {})
    => /\ pc = "fixup:done"
       /\ \E m \in MergePlaces :
             /\ \A i \in MergePlaces : m <= i
             /\ fixed_commit = feature_branch_commits[m - 1]

\* C24 witness: the two older commits of three are merge commits, the guess
\* is the oldest, and the call returned the tip.
C24_Witness ==
    /\ pc = "fixup:done"
    /\ Len(feature_branch_commits) = 3
    /\ MergePlaces = {2, 3}
    /\ initial_guess_of_first_commit = feature_branch_commits[3]
    /\ fixed_commit = feature_branch_commits[1]

(***************************************************************************)
(* The first-parent walks, one loop iteration per step                     *)
(*                                                                         *)
(* A walk starts where the code starts it: get_branch_commits at a parent  *)
(* of a merge commit, add_unmerged_branches at a commit that is no         *)
(* commit's parent, catch_empty_graph at the last commit of the list, and  *)
(* find_feature_parent at the newest commit of a base branch.              *)
(***************************************************************************)
BranchWalkStarts(ac, cp) ==
    LET mcp == identify_merge_commit_parents(cp)
    IN  {BranchWalkStart(ac[IndexOf(mcp[i], cp)], mcp[i][j]) :
            i \in 1..Len(mcp), j \in {1, 2}}

UnmergedWalkStarts(ac, cp) ==
    {UnmergedWalkStart(ac, cp, ac[i]) :
        i \in {k \in 1..Len(ac) : ac[k] \notin FlatParents(cp)}}

FallbackWalkStarts(ac) == IF ac = <<>> THEN {} ELSE {FallbackWalkStart(ac)}

WalkStopped(w) ==
    CASE w.kind \in {"branch", "fallback"} -> ~w.running
      [] w.kind = "unmerged" -> w.parents = <<>>
      [] w.kind = "feature_parent" -> w.result # "running"

WalkPc(w) == IF WalkStopped(w) THEN "stopped" ELSE "walking"

InitWalk ==
    /\ \E n \in 0..MaxCommits : \E h \in Histories(n) :
          \/ /\ all_commits \in {NewestFirst(n), OldestFirst(n)}
             /\ commit_parents = [i \in 1..n |-> h[all_commits[i]]]
             /\ walk \in BranchWalkStarts(all_commits, commit_parents)
                         \cup UnmergedWalkStarts(all_commits, commit_parents)
                         \cup FallbackWalkStarts(all_commits)
             /\ base_commits = <<>>
          \/ /\ all_commits = NewestFirst(n)
             /\ commit_parents = [i \in 1..n |-> h[all_commits[i]]]
             /\ base_commits \in {CommitsOf(ids, h) : ids \in (SUBSET (1..n)) \ {{}}}
             /\ \E c \in 1..n :
                   walk = FeatureWalkStart(Commit(c, h[c]), base_commits)
    /\ pc = WalkPc(walk)
    /\ refs = <<>>
    /\ merge_commit_parents = <<>>
    /\ nodes = <<>>
    /\ feature_commits = <<>>
    /\ first_feature_commit = NoCommit
    /\ FixupIdle
    /\ CacheIdle
    /\ error = None
    /\ TagsIdle
    /\ MergeIdle
    /\ RepoIdle

\* A loop that has appended more ids than there are commits is cut here, so
\* that a walk that does not end shows as a state and not as an endless run.
WalkIteration(kind, next) ==
    /\ pc = "walking"
    /\ walk.kind = kind
    /\ walk.steps <= Len(IF kind = "feature_parent" THEN base_commits ELSE all_commits)
    /\ walk' = next
    /\ pc' = WalkPc(next)
    /\ UNCHANGED <<error, tagVars, graphVars, featureVars, mergeVars, repoVars, fixupVars, cacheVars>>

BranchWalkIteration ==
    WalkIteration("branch", BranchWalkStep(all_commits, commit_parents, walk))

UnmergedWalkIteration ==
    WalkIteration("unmerged", UnmergedWalkStep(all_commits, commit_parents, walk))

FallbackWalkIteration ==
    WalkIteration("fallback", FallbackWalkStep(all_commits, commit_parents, walk))

FeatureWalkIteration ==
    WalkIteration("feature_parent", FeatureWalkStep(base_commits, walk))

NextWalk ==
    \/ BranchWalkIteration
    \/ UnmergedWalkIteration
    \/ FallbackWalkIteration
    \/ FeatureWalkIteration

\* The code is sequential: a loop that can take its next iteration takes it.
SpecWalk == InitWalk /\ [][NextWalk]_vars /\ WF_vars(NextWalk)

(***************************************************************************)
(* Claims about the first-parent walks                                     *)
(***************************************************************************)
\* The ids of the list a walk looks its parents up in.
WalkedIds ==
    IF walk.kind = "feature_parent"
    THEN [i \in 1..Len(base_commits) |-> base_commits[i].id]
    ELSE all_commits

\* The ids the walk has visited, oldest last.
WalkTrail ==
    CASE walk.kind \in {"branch", "fallback"} -> walk.commit_list
      [] walk.kind = "unmerged" -> walk.branch
      [] OTHER -> <<>>

\* A walk has appended no more ids than there are commits, has gone past no
\* id that is absent from the list, and when it has stopped without raising
\* it stands at an id that is absent from the list (add_unmerged_branches:
\* or at a commit without parents; find_feature_parent, when it returns
\* False: at a commit whose first parent is missing from the base list).
WalkWithinSnapshot ==
    walk.kind # "none" =>
        /\ walk.steps <= Len(WalkedIds)
        /\ \A j \in 1..(Len(WalkTrail) - 1) : InSeq(WalkTrail[j], WalkedIds)
        /\ (pc = "stopped" /\ walk.kind \in {"branch", "fallback"} /\ ~walk.raised)
              => ~InSeq(WalkTrail[Len(WalkTrail)], WalkedIds)
        /\ (pc = "stopped" /\ walk.kind = "unmerged")
              => ~HasFirstParent(WalkTrail[Len(WalkTrail)])
        /\ (pc = "stopped" /\ walk.kind = "feature_parent" /\ walk.result = "False")
              => \/ walk.base_commit.parent_ids = <<>>
                 \/ ~InSeq(walk.base_commit.parent_ids[1], WalkedIds)

\* C4: every first-parent walk over an acyclic snapshot ends, within as many
\* steps as there are commits, and no later than at the first parent id that
\* is not in the list.
C4_WalksTerminate == [](WalkWithinSnapshot) /\ <>(pc = "stopped")

\* C4 witness: the walk of catch_empty_graph has followed as many parents as
\* there are commits (three or more) and stopped at the absent parent.
C4_Witness ==
    /\ pc = "stopped"
    /\ walk.kind = "fallback"
    /\ ~walk.raised
    /\ Len(all_commits) >= 3
    /\ walk.steps = Len(all_commits)

(***************************************************************************)
(* Claims about get_first_feature_commit                                   *)
(***************************************************************************)
\* C5: with a non-empty feature list whose oldest commit is not the oldest
\* commit of the base list, the call raises the assertion that the oldest
\* commit must be common, and returns nothing.
C5_OldestMismatchRaises ==
    ( /\ pc # "call"
      /\ feature_commits # <<>>
      /\ base_commits # <<>>
      /\ feature_commits[Len(feature_commits)].id # base_commits[Len(base_commits)].id )
    => /\ pc = "raised"
       /\ error = <<"AssertionError", OldestMustBeCommon>>
       /\ first_feature_commit = NoCommit

\* C5 witness: the call raised on lists whose oldest commits differ although
\* the newest feature commit is in the base list.
C5_Witness ==
    /\ pc = "raised"
    /\ Len(feature_commits) >= 2
    /\ Len(base_commits) >= 2
    /\ feature_commits[Len(feature_commits)].id # base_commits[Len(base_commits)].id
    /\ CommitIn(feature_commits[1], base_commits)

\* The call has ended, the oldest commits of the two lists are the same
\* commit, and the newest feature commit is not a base commit (unmerged
\* branch) or is one (merged branch).
OldestMatch ==
    /\ pc # "call"
    /\ feature_commits # <<>>
    /\ base_commits # <<>>
    /\ feature_commits[Len(feature_commits)].id = base_commits[Len(base_commits)].id

NewestFeatureInBase ==
    \E j \in 1..Len(base_commits) : base_commits[j].id = feature_commits[1].id

\* The positions of the feature commits whose first-listed parent id is the
\* id of a base commit.
ConnectedToBase ==
    {i \in 1..Len(feature_commits) :
        /\ feature_commits[i].parent_ids # <<>>
        /\ \E j \in 1..Len(base_commits) :
              base_commits[j].id = feature_commits[i].parent_ids[1]}

\* C13: on an unmerged branch with a feature commit whose first parent is a
\* base commit, the call returns the newest such feature commit (the first
\* in list order).
C13_FirstConnectedReturned ==
    (OldestMatch /\ ~NewestFeatureInBase /\ ConnectedToBase # {})
        => /\ pc = "done"
           /\ \E i \in ConnectedToBase :
                 /\ \A k \in ConnectedToBase : i <= k
                 /\ first_feature_commit = feature_commits[i]

\* C14: on an unmerged branch with no feature commit whose first parent is a
\* base commit, the call raises "Feature branch not connected", and ends in
\* no other way.
C14_UnconnectedRaisesNotConnected ==
    (OldestMatch /\ ~NewestFeatureInBase /\ ConnectedToBase = {})
        => /\ pc = "raised"
           /\ error[2] = NotConnected

\* The kind of error a mismatch of the oldest commits is raised with.
PreconditionViolation ==
    get_first_feature_commit(<<Commit(1, <<>>)>>, <<Commit(2, <<>>)>>).error

\* C15: the "not connected" error is of another kind than the error of the
\* mismatch of the oldest commits.
C15_ErrorKindsDiffer ==
    (pc = "raised" /\ error[2] = NotConnected)
        => error[1] # PreconditionViolation

\* C15 as the code has it: the "not connected" error has the type of the
\* error of the mismatch of the oldest commits and another message.
C15_SameKindOtherMessage ==
    (pc = "raised" /\ error[2] = NotConnected)
        => /\ error[1] = PreconditionViolation
           /\ error[2] # OldestMustBeCommon

\* C15 witness: an unmerged branch of two or more commits, none with its
\* first parent in base, has ended with the "not connected" error.
C15_Witness ==
    /\ pc = "raised"
    /\ Len(feature_commits) >= 2
    /\ OldestMatch
    /\ ~NewestFeatureInBase
    /\ error = <<"AssertionError", NotConnected>>

\* C16: on a merged branch where find_feature_parent is False for every
\* feature commit, the call returns the second-oldest feature commit.
C16_FastForwardReturnsSecondOldest ==
    ( /\ OldestMatch
      /\ NewestFeatureInBase
      /\ \A i \in 1..Len(feature_commits) :
            ~find_feature_parent(feature_commits[i], base_commits) )
        => /\ pc = "done"
           /\ Len(feature_commits) >= 2
           /\ first_feature_commit = feature_commits[Len(feature_commits) - 1]

\* C30: a commit that get_first_feature_commit returns is an element of
\* feature_commits.
C30_ReturnedCommitIsFeatureCommit ==
    (pc = "done" /\ first_feature_commit # NoCommit)
        => \E i \in 1..Len(feature_commits) : feature_commits[i] = first_feature_commit

\* C30 witness: on an unmerged branch of three commits the call returned the
\* middle one, which is no base commit.
C30_Witness ==
    /\ pc = "done"
    /\ Len(feature_commits) = 3
    /\ ~NewestFeatureInBase
    /\ first_feature_commit = feature_commits[2]
    /\ ~CommitIn(first_feature_commit, base_commits)

\* The base commits that find_feature_parent looks at: the newest base commit
\* and, from each one, the base commit that is its first parent.
RECURSIVE FirstParentChain(_, _)
FirstParentChain(b, bcs) ==
    LET nexts == IF b.parent_ids = <<>> THEN {}
                 ELSE {j \in 1..Len(bcs) : bcs[j].id = b.parent_ids[1]}
    IN  {b} \cup (IF nexts = {} THEN {}
                  ELSE FirstParentChain(bcs[CHOOSE j \in nexts : TRUE], bcs))

\* The walk of find_feature_parent has returned.
FeatureParentReturned ==
    /\ pc = "stopped"
    /\ walk.kind = "feature_parent"

\* C22 as stated: find_feature_parent returns True exactly when a base commit
\* of the first-parent chain, other than the feature commit, has the feature
\* commit's first parent as a non-mainline parent (a parent after its first).
C22_NonMainlineParentMatches ==
    FeatureParentReturned =>
        ( walk.result = "True"
          <=> /\ walk.feature_commit.parent_ids # <<>>
              /\ \E b \in FirstParentChain(base_commits[1], base_commits) :
                    /\ b.id # walk.feature_commit.id
                    /\ \E k \in 2..Len(b.parent_ids) :
                          b.parent_ids[k] = walk.feature_commit.parent_ids[1] )

\* C22: find_feature_parent returns True exactly when a base commit of the
\* first-parent chain from the newest base commit, other than the feature
\* commit, has the feature commit's first parent among its parents, the
\* mainline parent included.
C22_AnyParentMatches ==
    FeatureParentReturned =>
        ( walk.result = "True"
          <=> /\ walk.feature_commit.parent_ids # <<>>
              /\ \E b \in FirstParentChain(base_commits[1], base_commits) :
                    /\ b.id # walk.feature_commit.id
                    /\ \E k \in 1..Len(b.parent_ids) :
                          b.parent_ids[k] = walk.feature_commit.parent_ids[1] )

\* C22 witness: the walk went one base commit down and returned True at a
\* base commit with one parent, which is the feature commit's first parent.
C22_Witness ==
    /\ FeatureParentReturned
    /\ walk.result = "True"
    /\ walk.steps = 1
    /\ walk.base_commit.parent_ids = <<walk.feature_commit.parent_ids[1]>>

(***************************************************************************)
(* identify_merge_commit_parents on its own, over parent lists of any      *)
(* length up to three (a merge of three branches has three parents)        *)
(***************************************************************************)
MaxParentLists == 3

ParentListUniverse ==
    LET ids == {X, 1, 2}
    IN  {<<>>} \cup {<<p>> : p \in ids}
               \cup {pq \in ids \X ids : pq[1] # pq[2]}
               \cup {pqr \in ids \X ids \X ids :
                        pqr[1] # pqr[2] /\ pqr[1] # pqr[3] /\ pqr[2] # pqr[3]}

InitParents ==
    /\ pc = "identify"
    /\ commit_parents \in SeqsUpTo(ParentListUniverse, MaxParentLists)
    /\ all_commits = <<>>
    /\ refs = <<>>
    /\ merge_commit_parents = <<>>
    /\ nodes = <<>>
    /\ FixupIdle
    /\ CacheIdle
    /\ error = None
    /\ walk = NoWalk
    /\ TagsIdle
    /\ MergeIdle
    /\ RepoIdle
    /\ FeatureIdle

NextParents == IdentifyMergeCommitParents

SpecParents == InitParents /\ [][NextParents]_vars

\* C10: the result holds, in input order, the pair (parents[0], parents[1])
\* of each parent list with more than one entry, and nothing else.
C10_PairPerMergeCommit ==
    pc = "branch" =>
        LET merges == SelectSeq(commit_parents, LAMBDA pl : Len(pl) > 1)
        IN  merge_commit_parents =
                [i \in 1..Len(merges) |-> <<merges[i][1], merges[i][2]>>]

(***************************************************************************)
(* commit.py: get_merge_commit                                             *)
(***************************************************************************)
\* "for index, commit in enumerate(master_commits)": the position of the
\* first master commit equal to feature_tip, counted from 1; 0 is the None
\* the code leaves in master_commit_index when there is none.
RECURSIVE MasterCommitIndex(_, _, _)
MasterCommitIndex(tip, mcs, i) ==
    IF i > Len(mcs) THEN 0
    ELSE IF mcs[i].id = tip.id THEN i
    ELSE MasterCommitIndex(tip, mcs, i + 1)

\* Mutant of MoreRecentCommits: the more recent commits are scanned in list
\* order, newest first.
MoreRecentCommitsNewestFirst(mcs, k) == SubSeq(mcs, 1, k - 1)

\* reversed(master_commits[:master_commit_index])
MoreRecentCommits(mcs, k) == Reverse(SubSeq(mcs, 1, k - 1))

\* Mutant of MergeSearchLoop: without a merge commit the branch is reported
\* as not merged.
RECURSIVE MergeSearchLoopNotMerged(_, _, _)
MergeSearchLoopNotMerged(tip, cs, i) ==
    IF i > Len(cs) THEN Return(NoCommit)
    ELSE IF Len(cs[i].parent_ids) > 1 /\ tip.id = cs[i].parent_ids[2]
         THEN Return(cs[i])
    ELSE MergeSearchLoopNotMerged(tip, cs, i + 1)

\* "for commit in reversed(...)": the first merge commit whose second parent
\* is the feature tip, else the feature tip (fast-forward merge).
RECURSIVE MergeSearchLoop(_, _, _)
MergeSearchLoop(tip, cs, i) ==
    IF i > Len(cs) THEN Return(tip)
    ELSE IF Len(cs[i].parent_ids) > 1 /\ tip.id = cs[i].parent_ids[2]
         THEN Return(cs[i])
    ELSE MergeSearchLoop(tip, cs, i + 1)

\* get_merge_commit(feature_tip, master_commits); a feature_tip of None fails
\* "assert isinstance(feature_tip, Commit)".
get_merge_commit(tip, mcs) ==
    IF mcs = <<>> THEN Return(NoCommit)
    ELSE IF tip = NoCommit THEN Raise("AssertionError", "")
    ELSE LET master_commit_index == MasterCommitIndex(tip, mcs, 1)
         IN  IF master_commit_index = 0 THEN Return(NoCommit)
             ELSE MergeSearchLoop(tip, MoreRecentCommits(mcs, master_commit_index), 1)

\* master_commits is a newest-first selection of the commits of an acyclic
\* history, feature_tip one commit of that history or None.
InitMerge ==
    /\ pc = "merge:call"
    /\ \E n \in 0..MaxCommits : \E h \in Histories(n) :
          /\ master_commits \in {CommitsOf(ids, h) : ids \in SUBSET (1..n)}
          /\ feature_tip \in {Commit(c, h[c]) : c \in 1..n} \cup {NoCommit}
    /\ merge_commit = NoCommit
    /\ FixupIdle
    /\ CacheIdle
    /\ error = None
    /\ walk = NoWalk
    /\ TagsIdle
    /\ GraphIdle
    /\ FeatureIdle
    /\ RepoIdle

GetMergeCommit ==
    /\ pc = "merge:call"
    /\ LET r == get_merge_commit(feature_tip, master_commits)
       IN  /\ pc' = IF r.raised THEN "merge:raised" ELSE "merge:done"
           /\ error' = IF r.raised THEN <<r.error, r.message>> ELSE None
           /\ merge_commit' = r.value
    /\ UNCHANGED <<feature_tip, master_commits, walk>>
    /\ UNCHANGED <<tagVars, graphVars, featureVars, repoVars, fixupVars, cacheVars>>

NextMerge == GetMergeCommit

SpecMerge == InitMerge /\ [][NextMerge]_vars

(***************************************************************************)
(* Claims about get_merge_commit                                           *)
(***************************************************************************)
\* The positions of feature_tip in master_commits.
TipPositions ==
    {i \in 1..Len(master_commits) : master_commits[i].id = feature_tip.id}

\* The positions of the master commits more recent than feature_tip that
\* have more than one parent and feature_tip as their second parent.
MergesOfTip ==
    {j \in 1..Len(master_commits) :
        /\ \A i \in TipPositions : j < i
        /\ Len(master_commits[j].parent_ids) > 1
        /\ master_commits[j].parent_ids[2] = feature_tip.id}

\* C17: with feature_tip in master_commits, the call returns the oldest of
\* the more recent commits that have more than one parent and feature_tip as
\* second parent, when there is one.
C17_OldestMergeOfTipReturned ==
    (pc # "merge:call" /\ feature_tip # NoCommit /\ TipPositions # {} /\ MergesOfTip # {})
        => /\ pc = "merge:done"
           /\ \E j \in MergesOfTip :
                 /\ \A k \in MergesOfTip : k <= j
                 /\ merge_commit = master_commits[j]

\* C17 witness: two master commits more recent than feature_tip have it as
\* second parent, and the older of the two is returned.
C17_Witness ==
    /\ pc = "merge:done"
    /\ TipPositions # {}
    /\ Cardinality(MergesOfTip) = 2
    /\ \A k \in MergesOfTip : merge_commit.id <= master_commits[k].id

\* C18: with feature_tip in master_commits and no more recent master commit
\* that has more than one parent and feature_tip as second parent, the call
\* returns feature_tip.
C18_FastForwardReturnsTip ==
    (pc # "merge:call" /\ feature_tip # NoCommit /\ TipPositions # {} /\ MergesOfTip = {})
        => /\ pc = "merge:done"
           /\ merge_commit = feature_tip

\* C18 witness: feature_tip is the first parent of a more recent merge
\* commit of master_commits, second parent of none, and is returned.
C18_Witness ==
    /\ pc = "merge:done"
    /\ TipPositions # {}
    /\ MergesOfTip = {}
    /\ \E j \in 1..Len(master_commits) :
          /\ \A i \in TipPositions : j < i
          /\ Len(master_commits[j].parent_ids) > 1
          /\ master_commits[j].parent_ids[1] = feature_tip.id
    /\ merge_commit = feature_tip

(***************************************************************************)
(* repository.py: Repository.get_tag                                       *)
(*                                                                         *)
(* The repository holds _tags, empty after construction and filled from    *)
(* _fetch_tags by the first call that finds it empty.  The events a caller *)
(* passes are the ones get_events returns, or none; None and the empty     *)
(* list are the same to "if not events", and both are <<>> here.           *)
(***************************************************************************)
\* The names asked for: "feature" is the name of two tags of TagUniverse,
\* "master" the name of none.
TagNames == {"feature", "master"}

\* The events of the repository are tag events dated after Deadline; what
\* get_tags_at_date does with other events is modelled in SpecTags.
RepoEventUniverse ==
    {Event(Deadline + 1, ty, "tag", t.name, t.commit_id) :
        ty \in {"deleted", "pushed new"}, t \in TagUniverse}

MustProvideEvents == "Must provide list of events if deadline is specified."

\* "for tag in tags_to_search": the first tag of that name, else None.
RECURSIVE TagSearchLoop(_, _, _)
TagSearchLoop(ts, tag_name, i) ==
    IF i > Len(ts) THEN NoTag
    ELSE IF ts[i].name = tag_name THEN ts[i]
    ELSE TagSearchLoop(ts, tag_name, i + 1)

\* Mutant of get_tag: the deadline is checked and then the current tags are
\* searched.
get_tag_current(stored, fetch, tag_name, d, evs) ==
    LET fetched == IF stored = <<>> THEN fetch ELSE stored
    IN  IF d # NoDeadline /\ evs = <<>>
        THEN [self_tags |-> fetched, tags_to_search |-> fetched, raised |-> TRUE,
              error |-> <<"SyntaxError", MustProvideEvents>>, value |-> NoTag]
        ELSE [self_tags |-> fetched, tags_to_search |-> fetched, raised |-> FALSE,
              error |-> None, value |-> TagSearchLoop(fetched, tag_name, 1)]

\* Repository.get_tag(name, deadline, events) on a repository whose _tags is
\* stored and whose _fetch_tags returns fetch: the new _tags, the list that
\* is searched, and the returned tag or the raised error.
get_tag(stored, fetch, tag_name, d, evs) ==
    LET fetched == IF stored = <<>> THEN fetch ELSE stored
    IN  IF d # NoDeadline /\ evs = <<>>
        THEN [self_tags |-> fetched, tags_to_search |-> fetched, raised |-> TRUE,
              error |-> <<"SyntaxError", MustProvideEvents>>, value |-> NoTag]
        ELSE LET search == IF d # NoDeadline
                           THEN get_tags_at_date(d, fetched, evs)
                           ELSE fetched
             IN  [self_tags |-> fetched, tags_to_search |-> search, raised |-> FALSE,
                  error |-> None, value |-> TagSearchLoop(search, tag_name, 1)]

InitRepo ==
    /\ pc = "repo:idle"
    /\ self_tags = <<>>
    /\ server_tags \in SeqsUpTo(TagUniverse, MaxTags)
    /\ server_events \in SeqsUpTo(RepoEventUniverse, MaxEvents)
    /\ name = None
    /\ deadline = NoDeadline
    /\ tags_to_search = <<>>
    /\ tag = NoTag
    /\ FixupIdle
    /\ CacheIdle
    /\ error = None
    /\ walk = NoWalk
    /\ TagsIdle
    /\ GraphIdle
    /\ FeatureIdle
    /\ MergeIdle

\* One call of get_tag; the repository takes any number of calls.
GetTag ==
    /\ pc \in {"repo:idle", "repo:returned", "repo:raised"}
    /\ \E tag_name \in TagNames, d \in {NoDeadline} \cup Dates, evs \in {<<>>, server_events} :
          LET r == get_tag(self_tags, server_tags, tag_name, d, evs)
          IN  /\ name' = tag_name
              /\ deadline' = d
              /\ events' = evs
              /\ self_tags' = r.self_tags
              /\ tags_to_search' = r.tags_to_search
              /\ tag' = r.value
              /\ error' = r.error
              /\ pc' = IF r.raised THEN "repo:raised" ELSE "repo:returned"
    /\ UNCHANGED <<server_tags, server_events, date, tags, tags_at_date, walk>>
    /\ UNCHANGED <<graphVars, featureVars, mergeVars, fixupVars, cacheVars>>

NextRepo == GetTag

SpecRepo == InitRepo /\ [][NextRepo]_vars

(***************************************************************************)
(* Claims about Repository.get_tag                                         *)
(***************************************************************************)
\* The tags as they were at the deadline of the last call, rebuilt from the
\* tags the repository holds and the events of the call.
TagsAtDeadline == get_tags_at_date(deadline, self_tags, events)

\* The position of the first tag of ts that has the name asked for, in a set.
FirstNamed(ts) ==
    {i \in 1..Len(ts) : ts[i].name = name /\ \A j \in 1..(i - 1) : ts[j].name # name}

\* C20: a call with a deadline and no events raises and returns no tag; a
\* call with a deadline and events returns the first tag of that name in the
\* list get_tags_at_date gives for the deadline, or None when it has none.
C20_DeadlineNeedsEventsAndSearchesPast ==
    (pc \in {"repo:returned", "repo:raised"} /\ deadline # NoDeadline)
        => IF events = <<>>
           THEN /\ pc = "repo:raised"
                /\ error = <<"SyntaxError", MustProvideEvents>>
                /\ tag = NoTag
           ELSE /\ pc = "repo:returned"
                /\ tags_to_search = TagsAtDeadline
                /\ \A i \in FirstNamed(TagsAtDeadline) : tag = TagsAtDeadline[i]
                /\ FirstNamed(TagsAtDeadline) = {} => tag = NoTag

\* C20 witness: a current tag of the name asked for was pushed after the
\* deadline, a deleted tag of that name has another commit, and the call
\* returns the deleted tag.
C20_Witness ==
    /\ pc = "repo:returned"
    /\ deadline = Deadline
    /\ events # <<>>
    /\ FirstNamed(self_tags) # {}
    /\ tag # NoTag
    /\ \A i \in 1..Len(self_tags) : self_tags[i] # tag

(***************************************************************************)
(* The three functions with an absence outcome, side by side               *)
(***************************************************************************)
InitAbsence == InitFeature \/ InitMerge \/ InitRepo

NextAbsence == NextFeature \/ NextMerge \/ NextRepo

SpecAbsence == InitAbsence /\ [][NextAbsence]_vars

\* The list the last call of get_tag had to search.
SearchedTags == IF deadline = NoDeadline THEN self_tags ELSE TagsAtDeadline

\* C19: the absence outcomes are a returned None and no raise:
\* get_first_feature_commit with an empty feature list, whatever the base
\* list; get_merge_commit with an empty master list, or with a feature tip
\* that is not in it; get_tag, called with events when it is called with a
\* deadline, for a name that no tag of the searched list has.
C19_AbsenceIsNoneNotError ==
    /\ (pc \in {"done", "raised"} /\ feature_commits = <<>>)
          => (pc = "done" /\ first_feature_commit = NoCommit)
    /\ ( /\ pc \in {"merge:done", "merge:raised"}
         /\ \/ master_commits = <<>>
            \/ (feature_tip # NoCommit /\ TipPositions = {}) )
          => (pc = "merge:done" /\ merge_commit = NoCommit)
    /\ ( /\ pc \in {"repo:returned", "repo:raised"}
         /\ (deadline = NoDeadline \/ events # <<>>)
         /\ FirstNamed(SearchedTags) = {} )
          => (pc = "repo:returned" /\ tag = NoTag)

\* C19 witness: get_first_feature_commit has returned None for an empty
\* feature list and an empty base list.
C19_Witness ==
    /\ pc = "done"
    /\ feature_commits = <<>>
    /\ base_commits = <<>>
    /\ first_feature_commit = NoCommit

(***************************************************************************)
(* repository.py: the commit cache of a Repository, get_commits and        *)
(* get_commit_by_id                                                        *)
(*                                                                         *)
(* Commit ids are numbers read as digit strings: 12 starts with 1 and      *)
(* with 12.  The backend answers a fetch with any of its lists, so that a  *)
(* second fetch of a window could give another answer than the first.      *)
(***************************************************************************)
MaxCalls == 3

\* datetime.datetime.fromtimestamp(1), the date of a cache made for one commit
FakeDate == 1

\* get_commit_by_id(None)
NoId == 0

\* The commits of the server.
ServerCommits == {Commit(11, <<>>), Commit(12, <<11>>), Commit(21, <<12>>)}

\* The lists _fetch_commits can answer with.
FetchResults ==
    {<<>>,
     <<Commit(12, <<11>>), Commit(11, <<>>)>>,
     <<Commit(21, <<12>>), Commit(12, <<11>>), Commit(11, <<>>)>>}

\* The (start, end, branch) triples get_commits is called with.
Windows ==
    {[start |-> 10, end |-> 20, branch |-> "master"],
     [start |-> 10, end |-> 20, branch |-> "feature"],
     [start |-> 10, end |-> 30, branch |-> "master"]}

\* The ids get_commit_by_id is called with: prefixes of ids of the server,
\* a full id, and a prefix of no id.
RequestedIds == {1, 2, 12, 3}

\* id.startswith(prefix), for a prefix of one digit or more
StartsWith(id, prefix) == \E k \in {1, 10} : id \div k = prefix

\* CommitCache(start, end, branch, commits): commits is kept as a tuple.
CommitCache(start, end, branch, commits) ==
    [start |-> start, end |-> end, branch |-> branch, commits |-> commits]

\* None where a CommitCache is expected.
NoCache == CommitCache(0, 0, None, <<>>)

RECURSIVE CachedLoop(_, _, _, _, _)
CachedLoop(stored, start, end, branch, i) ==
    IF i > Len(stored) THEN NoCache
    ELSE IF stored[i].start = start /\ stored[i].end = end /\ stored[i].branch = branch
         THEN stored[i]
    ELSE CachedLoop(stored, start, end, branch, i + 1)

\* Repository._get_cached_commits
get_cached_commits(stored, start, end, branch) ==
    CachedLoop(stored, start, end, branch, 1)

\* Mutant of get_commits: a cache without commits counts as no cache.
get_commits_refetch_empty(stored, start, end, branch, new_commits) ==
    LET cached_commits == get_cached_commits(stored, start, end, branch)
    IN  IF cached_commits # NoCache /\ cached_commits.commits # <<>>
        THEN [stored |-> stored, fetched |-> 0, commits |-> cached_commits.commits]
        ELSE [stored |-> Append(stored, CommitCache(start, end, branch, new_commits)),
              fetched |-> 1, commits |-> new_commits]

\* Repository.get_commits; new_commits is what _fetch_commits answers when it
\* is called, and fetched counts its calls.  A CommitCache is always truthy.
get_commits(stored, start, end, branch, new_commits) ==
    LET cached_commits == get_cached_commits(stored, start, end, branch)
    IN  IF cached_commits # NoCache
        THEN [stored |-> stored, fetched |-> 0, commits |-> cached_commits.commits]
        ELSE [stored |-> Append(stored, CommitCache(start, end, branch, new_commits)),
              fetched |-> 1, commits |-> new_commits]

\* "for cache in self._stored_commits: for commit in cache" of
\* get_commit_by_id; commit.id of a stored None raises AttributeError.
RECURSIVE ScanCaches(_, _, _, _)
ScanCaches(stored, commit_id, i, j) ==
    IF i > Len(stored) THEN [outcome |-> "miss", commit |-> NoCommit]
    ELSE IF j > Len(stored[i].commits) THEN ScanCaches(stored, commit_id, i + 1, 1)
    ELSE IF stored[i].commits[j] = NoCommit
         THEN [outcome |-> "raised", commit |-> NoCommit]
    ELSE IF StartsWith(stored[i].commits[j].id, commit_id)
         THEN [outcome |-> "found", commit |-> stored[i].commits[j]]
    ELSE ScanCaches(stored, commit_id, i, j + 1)

\* What _fetch_commit_by_id can answer: a commit whose id starts with the
\* requested id, or None when the server does not resolve the id.
FetchedById(commit_id) ==
    {NoCommit} \cup {c \in ServerCommits : StartsWith(c.id, commit_id)}

\* Repository.get_commit_by_id; new_commit is what _fetch_commit_by_id
\* answers when it is called.
get_commit_by_id(stored, commit_id, new_commit) ==
    IF commit_id = NoId
    THEN [stored |-> stored, fetched |-> 0, raised |-> FALSE, commit |-> NoCommit]
    ELSE LET scan == ScanCaches(stored, commit_id, 1, 1)
         IN  CASE scan.outcome = "raised" ->
                     [stored |-> stored, fetched |-> 0, raised |-> TRUE,
                      commit |-> NoCommit]
               [] scan.outcome = "found" ->
                     [stored |-> stored, fetched |-> 0, raised |-> FALSE,
                      commit |-> scan.commit]
               [] scan.outcome = "miss" ->
                     [stored |-> Append(stored, CommitCache(FakeDate, FakeDate, "",
                                                            <<new_commit>>)),
                      fetched |-> 1, raised |-> FALSE, commit |-> new_commit]

\* Repository.__init__: no cache yet.
InitCache ==
    /\ pc = "cache:idle"
    /\ CacheIdle
    /\ GraphIdle
    /\ FeatureIdle
    /\ TagsIdle
    /\ MergeIdle
    /\ RepoIdle
    /\ FixupIdle
    /\ error = None
    /\ walk = NoWalk

\* A call of get_commits, and what it returned.
GetCommits ==
    /\ Len(calls) < MaxCalls
    /\ \E w \in Windows, new_commits \in FetchResults :
          LET r == get_commits(stored_commits, w.start, w.end, w.branch, new_commits)
          IN  /\ stored_commits' = r.stored
              /\ fetches' = fetches + r.fetched
              /\ calls' = Append(calls,
                     [op |-> "get_commits", start |-> w.start, end |-> w.end,
                      branch |-> w.branch, commit_id |-> NoId,
                      fetched |-> r.fetched, raised |-> FALSE,
                      commits |-> r.commits, commit |-> NoCommit])
    /\ pc' = "cache:returned"
    /\ error' = None
    /\ UNCHANGED walk
    /\ UNCHANGED <<tagVars, graphVars, featureVars, mergeVars, repoVars, fixupVars>>

\* A call of get_commit_by_id, and what it returned or that it raised.
GetCommitById ==
    /\ Len(calls) < MaxCalls
    /\ \E commit_id \in RequestedIds \cup {NoId} :
          \E new_commit \in FetchedById(commit_id) :
             LET r == get_commit_by_id(stored_commits, commit_id, new_commit)
             IN  /\ stored_commits' = r.stored
                 /\ fetches' = fetches + r.fetched
                 /\ calls' = Append(calls,
                        [op |-> "get_commit_by_id", start |-> 0, end |-> 0,
                         branch |-> None, commit_id |-> commit_id,
                         fetched |-> r.fetched, raised |-> r.raised,
                         commits |-> <<>>, commit |-> r.commit])
                 /\ pc' = IF r.raised THEN "cache:raised" ELSE "cache:returned"
                 /\ error' = IF r.raised THEN <<"AttributeError", "">> ELSE None
    /\ UNCHANGED walk
    /\ UNCHANGED <<tagVars, graphVars, featureVars, mergeVars, repoVars, fixupVars>>

NextCache == GetCommits \/ GetCommitById

SpecCache == InitCache /\ [][NextCache]_vars

(***************************************************************************)
(* Claims about the commit cache                                           *)
(***************************************************************************)
\* The calls of get_commits before call k that had the triple of call k.
EarlierSameWindow(k) ==
    {j \in 1..(k - 1) :
        /\ calls[j].op = "get_commits"
        /\ calls[j].start = calls[k].start
        /\ calls[j].end = calls[k].end
        /\ calls[j].branch = calls[k].branch}

\* Every call of get_commits so far returned the commits of the first call
\* with its triple and fetched nothing, or was the first and fetched once.
RepeatedWindowsServedFromCache ==
    \A k \in 1..Len(calls) :
        calls[k].op = "get_commits" =>
            IF EarlierSameWindow(k) # {}
            THEN /\ calls[k].fetched = 0
                 /\ \E j \in EarlierSameWindow(k) :
                       /\ \A m \in EarlierSameWindow(k) : j <= m
                       /\ calls[k].commits = calls[j].commits
            ELSE calls[k].fetched = 1

\* The stored caches stay as they are and where they are; a step can only
\* add caches behind them.
StoredWindowsKept ==
    /\ Len(stored_commits') >= Len(stored_commits)
    /\ SubSeq(stored_commits', 1, Len(stored_commits)) = stored_commits

C29_LookupNeverRaises ==
    \A k \in 1..Len(calls) :
        calls[k].op = "get_commit_by_id" =>
            /\ ~calls[k].raised
            /\ \/ calls[k].commit = NoCommit
               \/ StartsWith(calls[k].commit.id, calls[k].commit_id)

====
